---- MODULE Spec2Model ----
(***************************************************************************)
(* Verification model of the Rust server around the MAA engine:            *)
(*   - the session manager (src/Rust/src/api.rs and its request handlers), *)
(*   - the event-log store (src/Rust/maars_server/src/database.rs),        *)
(*   - the variable-length accessors of a session                          *)
(*     (src/Rust/maa-rs_sys/src/lib.rs).                                   *)
(* Each part has its own specification over its own variables; the other   *)
(* variables keep their initial value.                                     *)
(***************************************************************************)
EXTENDS Integers, Sequences, FiniteSets, TLC

VARIABLES
  manager,    \* MaaManager: [instances: set of [key, value] entries, id: counter]
  mutex,      \* std::sync::Mutex around the manager: "free" or the holding worker
  inflight,   \* foreign calls in progress: set of [worker, op, id, handle, cb]
  engine,     \* foreign engine: [created: handles handed out, destroyed: bag of releases]
  returned,   \* history: ids returned by MaaManager::create, in order
  deleted,    \* history: ids whose delete returned a session
  resp,       \* response of the handler that finished last
  cdIn,       \* codec: the event (time, type_, body) handed to insert_msg
  cdBytes,    \* codec: Option of the value bytes insert_msg builds
  cdOut,      \* codec: Option of the result of Msg::from_ivec on those bytes
  db,         \* sled::Db: [trees: name -> records in key order, idgen: generate_id counter]
  appended,   \* history: per key, the events appended since the key's last drop
  sresp,      \* result of the store operation that finished last
  thr,        \* per thread, the store call it is in the middle of:
              \* [op, pc, key, e, nums, id, stale, res]
  sess,       \* one Assistant: [handle, uuid, target, tasks, callback_ptr]
  acc,        \* the accessor being run on it: [op, pc, buff_size]
  offered,    \* buffer sizes handed to the foreign call by that accessor, in order
  reported,   \* what the foreign call answered each time: [size, data]
  aresult,    \* what the accessor (or create_task) returned last
  asst,       \* the engine behind the handle: [tasks: its live task ids, next: ids
              \* handed out, addr: Option of the address it is connected to]
  fcalls,     \* the foreign functions the running (or last) operation has called
  nullSize,   \* the value AsstGetNullSize reports
  objs,       \* per slot, an Assistant value: [st, handle, callback_ptr, step]
  hnd,        \* per handle, the engine's side of it: "none", "live" or "destroyed"
  ctx,        \* per callback context allocation: "none", "live" or "freed"
  cbs,        \* per handle, the trampoline: [running, delivered]
  uaf         \* whether a trampoline has used a context already freed

codecVars == <<cdIn, cdBytes, cdOut>>

storeVars == <<db, appended, sresp, thr>>

sessVars == <<sess, acc, offered, reported, aresult, asst, fcalls, nullSize>>

mgrVars == <<manager, mutex, inflight, engine, returned, deleted, resp>>

lifeVars == <<objs, hnd, ctx, cbs, uaf>>

(***************************************************************************)
(* Option<T> is a sequence of length 0 or 1.                               *)
(***************************************************************************)
None == <<>>

Some(x) == <<x>>

\* ---------------------------------------------------------------- bounds
\* Largest session id the manager hands out in the model.
MaxId == 3

Workers == {"w1", "w2"}

\* Ids a request may name: every id create can return, and one it never returns.
ReqIds == 0 .. MaxId

\* Return codes (AsstBool) the foreign start/stop report, and the call ids of click.
Statuses == {0, 1}

\* ------------------------------------------------------- session (Maa)
\* The session as constructed: the handle the engine returned, nothing cached.
AssistantNew(handle, callback_ptr) ==
  [handle |-> handle, uuid |-> None, target |-> None, tasks |-> {},
   callback_ptr |-> callback_ptr]

\* A buggy drop of the session that never releases the engine handle.
AssistantDropLeak(eng, maa) == eng

\* Drop for the session: a non-null handle is destroyed once.
AssistantDrop(eng, maa) ==
  IF maa.handle = 0 THEN eng
  ELSE [eng EXCEPT !.destroyed = Append(@, maa.handle)]

\* A buggy drop of the session that also empties the message database.
AssistantDropStorePurge(d) ==
  [trees |-> [n \in {"__sled__default"} |-> <<>>], idgen |-> d.idgen]

\* What dropping the session does to the message database: nothing; the
\* drop releases the engine handle and the callback context only.
AssistantDropStore(d) == d

\* ------------------------------------------------------- HashMap<i64, Maa>
HashMapKeys(map) == {e.key : e \in map}

HashMapInsert(map, k, v) ==
  {e \in map : e.key # k} \cup {[key |-> k, value |-> v]}

HashMapGet(map, k) ==
  IF \E e \in map : e.key = k
  THEN Some((CHOOSE e \in map : e.key = k).value)
  ELSE None

HashMapRemove(map, k) == {e \in map : e.key # k}

RECURSIVE SetToSeq(_)
SetToSeq(S) ==
  IF S = {} THEN <<>>
  ELSE LET e == CHOOSE x \in S : TRUE IN <<e>> \o SetToSeq(S \ {e})

\* ------------------------------------------------------------ MaaManager
MaaManagerNew == [instances |-> {}, id |-> 0]

\* A buggy id generator that hands out the lowest id not in use.
gen_id_reuse(m) ==
  LET free == CHOOSE i \in 1 .. (Cardinality(m.instances) + 1) :
                /\ i \notin HashMapKeys(m.instances)
                /\ \A j \in 1 .. (i - 1) : j \in HashMapKeys(m.instances)
  IN [m |-> [m EXCEPT !.id = free], ret |-> free]

\* self.id += 1; self.id
gen_id(m) == [m |-> [m EXCEPT !.id = @ + 1], ret |-> m.id + 1]

\* create: gen_id, construct the session on a fresh engine handle, insert.
create(m, handle) ==
  LET g == gen_id(m)
      maa == AssistantNew(handle, g.ret)
  IN [m |-> [g.m EXCEPT !.instances = HashMapInsert(@, g.ret, maa)],
      ret |-> g.ret]

get(m, i) == HashMapGet(m.instances, i)

get_mut(m, i) == HashMapGet(m.instances, i)

\* A buggy delete that hands the session out and leaves it registered.
delete_keep(m, i) == [m |-> m, ret |-> HashMapGet(m.instances, i)]

delete(m, i) ==
  [m |-> [m EXCEPT !.instances = HashMapRemove(@, i)],
   ret |-> HashMapGet(m.instances, i)]

\* self.instances.keys().copied().collect()
get_all_id(m) ==
  LET es == SetToSeq(m.instances)
  IN [k \in 1 .. Len(es) |-> es[k].key]

\* ------------------------------------------------------------- handlers
Resp(op, i, status, val) == [op |-> op, id |-> i, status |-> status, val |-> val]

\* POST /instances
HandleCreate(w) ==
  /\ mutex = "free"
  /\ manager.id < MaxId
  /\ \E h \in {0, engine.created + 1} :
       LET c == create(manager, h)
       IN /\ manager' = c.m
          /\ engine' = IF h = 0 THEN engine ELSE [engine EXCEPT !.created = h]
          /\ returned' = Append(returned, c.ret)
          /\ resp' = Resp("create", c.ret, "Ok", <<c.ret>>)
  /\ UNCHANGED <<mutex, inflight, deleted>>
  /\ UNCHANGED <<codecVars, storeVars, sessVars, lifeVars>>

\* DELETE /instances/{id}: the session taken out of the map is dropped at
\* the end of the statement.
HandleDelete(w, i) ==
  /\ mutex = "free"
  /\ LET d == delete(manager, i)
     IN /\ manager' = d.m
        /\ IF d.ret = None
           THEN /\ resp' = Resp("delete", i, "InstanceNotFound", <<>>)
                /\ UNCHANGED <<engine, deleted, db>>
           ELSE /\ resp' = Resp("delete", i, "Ok", <<>>)
                /\ engine' = AssistantDrop(engine, d.ret[1])
                /\ db' = AssistantDropStore(db)
                /\ deleted' = deleted \cup {i}
  /\ UNCHANGED <<mutex, inflight, returned, appended, sresp>>
  /\ UNCHANGED <<codecVars, sessVars, lifeVars, thr>>

\* GET /instances
HandleInstances(w) ==
  /\ mutex = "free"
  /\ resp' = Resp("instances", 0, "Ok", get_all_id(manager))
  /\ UNCHANGED <<manager, mutex, inflight, engine, returned, deleted>>
  /\ UNCHANGED <<codecVars, storeVars, sessVars, lifeVars>>

SessionOps == {"start", "stop", "click", "screenshot"}

\* A buggy lookup that falls back to some registered session when the id is absent.
LookupSessionAny(m, i) ==
  IF get(m, i) = None /\ m.instances # {}
  THEN Some((CHOOSE e \in m.instances : TRUE).value)
  ELSE get(m, i)

\* manager.get(id), whose absence the handlers turn into InstanceNotFound
LookupSession(m, i) == get(m, i)

\* A buggy handler whose guard is a temporary, released before the foreign call.
MutexGuardTemporary(w) == "free"

\* `let manager = manager.lock()...`: the guard is bound to a local of the
\* handler, so the mutex stays with the worker until the handler returns.
MutexGuard(w) == w

\* start / stop / click / screenshot up to the foreign call: lock, look the
\* session up, answer InstanceNotFound, or InvalidHandle (reported as Internal)
\* for a null handle, or issue the foreign call on the session's handle.
HandleSession(w, op, i) ==
  /\ mutex = "free"
  /\ LET maa == LookupSession(manager, i)
     IN IF maa = None
        THEN /\ resp' = Resp(op, i, "InstanceNotFound", <<>>)
             /\ UNCHANGED <<mutex, inflight>>
        ELSE IF maa[1].handle = 0
        THEN /\ resp' = Resp(op, i, "Internal", <<>>)
             /\ UNCHANGED <<mutex, inflight>>
        ELSE /\ \E cb \in {"none", "pending"} :
                  inflight' = inflight \cup
                    {[worker |-> w, op |-> op, id |-> i, handle |-> maa[1].handle,
                      cb |-> cb]}
             /\ mutex' = MutexGuard(w)
             /\ UNCHANGED resp
  /\ UNCHANGED <<manager, engine, returned, deleted>>
  /\ UNCHANGED <<codecVars, storeVars, sessVars, lifeVars>>

\* A callback path that locks the manager.
CallbackLocksManager == TRUE

\* Whether the callback path (trampoline, maa_store_callback) locks the
\* manager: it touches the callback context and the message database only.
CallbackLocks == FALSE

\* The engine, on its own thread, invokes the callback of the session during
\* a foreign call that waits for it (cb = "pending").
CallbackEnter(c) ==
  /\ c \in inflight
  /\ c.cb = "pending"
  /\ CallbackLocks => mutex = "free"
  /\ inflight' = (inflight \ {c}) \cup {[c EXCEPT !.cb = "running"]}
  /\ UNCHANGED <<manager, mutex, engine, returned, deleted, resp>>
  /\ UNCHANGED <<codecVars, storeVars, sessVars, lifeVars>>

\* The callback returns to the engine.
CallbackReturn(c) ==
  /\ c \in inflight
  /\ c.cb = "running"
  /\ inflight' = (inflight \ {c}) \cup {[c EXCEPT !.cb = "done"]}
  /\ UNCHANGED <<manager, mutex, engine, returned, deleted, resp>>
  /\ UNCHANGED <<codecVars, storeVars, sessVars, lifeVars>>

\* The foreign call returns, after the callback it waited for; the handler
\* maps its status and drops the guard.
ForeignReturn(w, status) ==
  /\ mutex = w
  /\ \E c \in inflight :
       /\ c.worker = w
       /\ c.cb \in {"none", "done"}
       /\ inflight' = inflight \ {c}
       /\ resp' = Resp(c.op, c.id,
                       IF c.op \in {"start", "stop"} /\ status # 1
                       THEN "Internal" ELSE "Ok", <<>>)
  /\ mutex' = "free"
  /\ UNCHANGED <<manager, engine, returned, deleted>>
  /\ UNCHANGED <<codecVars, storeVars, sessVars, lifeVars>>

MgrInit ==
  /\ manager = MaaManagerNew
  /\ mutex = "free"
  /\ inflight = {}
  /\ engine = [created |-> 0, destroyed |-> <<>>]
  /\ returned = <<>>
  /\ deleted = {}
  /\ resp = Resp("none", 0, "None", <<>>)

MgrNext ==
  \/ \E w \in Workers : HandleCreate(w)
  \/ \E w \in Workers, i \in ReqIds : HandleDelete(w, i)
  \/ \E w \in Workers : HandleInstances(w)
  \/ \E w \in Workers, op \in SessionOps, i \in ReqIds : HandleSession(w, op, i)
  \/ \E c \in inflight : CallbackEnter(c)
  \/ \E c \in inflight : CallbackReturn(c)
  \/ \E w \in Workers, s \in Statuses : ForeignReturn(w, s)

\* ------------------------------------------------------------ Result<T, E>
Ok(v) == [ok |-> TRUE, err |-> "", val |-> <<v>>]

Err(e) == [ok |-> FALSE, err |-> e, val |-> <<>>]

\* ------------------------------------------------------------ serde_json
\* Parameter documents: a JSON object, a Rust string (what the task handlers
\* pass), and a value serde cannot serialise.
JsonObject(text) == [kind |-> "object", text |-> text]

JsonString(text) == [kind |-> "string", text |-> text]

Unserializable == [kind |-> "map", text |-> ""]

\* serde_json::to_string: an object is written as it is, a string is quoted
\* (the strings of the model hold nothing to escape).
to_string(v) ==
  CASE v.kind = "object" -> Ok(v.text)
    [] v.kind = "string" -> Ok("\"" \o v.text \o "\"")
    [] OTHER -> Err("Serialize")

\* ------------------------------------------------------------ byte codecs
\* iN::to_be_bytes: the n low-order bytes of the two's complement of v, most
\* significant first (\div rounds down and % is non-negative).
RECURSIVE to_be_bytes(_, _)
to_be_bytes(v, n) ==
  IF n = 0 THEN <<>> ELSE Append(to_be_bytes(v \div 256, n - 1), v % 256)

\* iN::from_be_bytes: the signed value of big-endian two's complement bytes.
RECURSIVE from_be_bytes(_)
from_be_bytes(b) ==
  IF Len(b) = 1 THEN (IF b[1] >= 128 THEN b[1] - 256 ELSE b[1])
  ELSE from_be_bytes(SubSeq(b, 1, Len(b) - 1)) * 256 + b[Len(b)]

IsCont(b) == b >= 128 /\ b <= 191

\* String::from_utf8 accepts exactly the well-formed UTF-8 byte sequences.
RECURSIVE Utf8Valid(_)
Utf8Valid(b) ==
  LET n == Len(b)
      rest(k) == SubSeq(b, k + 1, n)
  IN IF n = 0 THEN TRUE
     ELSE IF b[1] < 128 THEN Utf8Valid(rest(1))
     ELSE IF b[1] >= 194 /\ b[1] <= 223
       THEN n >= 2 /\ IsCont(b[2]) /\ Utf8Valid(rest(2))
     ELSE IF b[1] >= 224 /\ b[1] <= 239
       THEN /\ n >= 3
            /\ IsCont(b[2]) /\ IsCont(b[3])
            /\ (b[1] = 224 => b[2] >= 160)
            /\ (b[1] = 237 => b[2] <= 159)
            /\ Utf8Valid(rest(3))
     ELSE IF b[1] >= 240 /\ b[1] <= 244
       THEN /\ n >= 4
            /\ IsCont(b[2]) /\ IsCont(b[3]) /\ IsCont(b[4])
            /\ (b[1] = 240 => b[2] >= 144)
            /\ (b[1] = 244 => b[2] <= 143)
            /\ Utf8Valid(rest(4))
     ELSE FALSE

\* ------------------------------------------------------------------- Msg
Msg(time, type_, uuid, body) ==
  [time |-> time, type_ |-> type_, uuid |-> uuid, body |-> body]

\* Size of the fixed record header: 8 bytes of time, 4 bytes of type.
HeaderLen == 12

\* Msg::from_ivec
from_ivec(uuid, ivec) ==
  IF Len(ivec) <= HeaderLen THEN Err("IVecNotLongEnough")
  ELSE LET time == from_be_bytes(SubSeq(ivec, 1, 8))
           type_ == from_be_bytes(SubSeq(ivec, 9, 12))
           body == SubSeq(ivec, 13, Len(ivec))
       IN IF Utf8Valid(body) THEN Ok(Msg(time, type_, uuid, body))
          ELSE Err("InvalidUtf8String")

\* The value insert_msg stores: time, type and body bytes.
EncodeValue(msg) ==
  to_be_bytes(msg.time, 8) \o to_be_bytes(msg.type_, 4) \o msg.body

\* ------------------------------------------------------- codec, step by step
\* Timestamps (i64 milliseconds) and kinds (i32) of the sample events.
TimeVals == {-2147483647, -1, 0, 1, 255, 256, 65536, 2147483647}

KindVals == {-2147483647, -1, 0, 1, 20000, 2147483647}

\* Bodies as UTF-8 bytes: "", "{", "{}", "e-acute", "a{}".
Bodies == {<<>>, <<123>>, <<123, 125>>, <<195, 169>>, <<97, 123, 125>>}

CodecInit ==
  /\ cdIn \in {Msg(t, k, "a", b) : t \in TimeVals, k \in KindVals, b \in Bodies}
  /\ cdBytes = None
  /\ cdOut = None

CodecEncode ==
  /\ cdBytes = None
  /\ cdBytes' = Some(EncodeValue(cdIn))
  /\ UNCHANGED <<cdIn, cdOut>>
  /\ UNCHANGED <<mgrVars, storeVars, sessVars, lifeVars>>

CodecDecode ==
  /\ cdBytes # None
  /\ cdOut = None
  /\ cdOut' = Some(from_ivec(cdIn.uuid, cdBytes[1]))
  /\ UNCHANGED <<cdIn, cdBytes>>
  /\ UNCHANGED <<mgrVars, storeVars, sessVars, lifeVars>>

CodecNext == CodecEncode \/ CodecDecode

CodecIdle ==
  /\ cdIn = Msg(0, 0, "a", <<>>)
  /\ cdBytes = None
  /\ cdOut = None

\* ------------------------------------------------------------- sled::Db
\* The name of sled's own default tree, which tree_names lists as well.
Reserved == "__sled__default"

\* Partition keys of the model: the device identifier a, its JSON text (a in
\* double quotes) and the reserved name.
Keys == {"a", "\"a\"", Reserved}

\* Where a store call of insert_msg may fail with a sled error.
IoFailures == {"none", "generate_id", "insert"}

\* Largest number of generate_id calls in one run of the model.
MaxAppends == 2

\* Windows a read asks for: none, fewer than, and more than what is stored.
NumsVals == {0, 1, 3}

\* First id generate_id hands out: 0 in a new database, higher after a restart.
IdStarts == {0, 255}

IdBase(x) == IF x >= 255 THEN 255 ELSE 0

\* a < b in the lexicographic order of equally long byte strings
LexLess(a, b) ==
  \E i \in 1 .. Len(a) :
    /\ a[i] < b[i]
    /\ \A j \in 1 .. (i - 1) : a[j] = b[j]

\* A buggy insert that overwrites the record stored last.
TreeInsertOverLast(tree, key, value) ==
  SubSeq(tree, 1, Len(tree) - 1) \o <<[key |-> key, value |-> value]>>

\* Tree::insert: the records stay in key order; an equal key is replaced.
TreeInsert(tree, key, value) ==
  LET lo == SelectSeq(tree, LAMBDA r : LexLess(r.key, key))
      hi == SelectSeq(tree, LAMBDA r : LexLess(key, r.key))
  IN lo \o <<[key |-> key, value |-> value]>> \o hi

\* Tree::get
TreeGet(tree, key) ==
  LET hit == SelectSeq(tree, LAMBDA r : r.key = key)
  IN IF hit = <<>> THEN None ELSE Some(hit[1].value)

\* Db::open_tree: the tree of that name, created empty when absent.
open_tree(d, name) ==
  IF name \in DOMAIN d.trees THEN d
  ELSE [d EXCEPT !.trees = @ @@ (name :> <<>>)]

\* A buggy generator that hands out the same id again.
generate_id_same(d) == [d |-> [d EXCEPT !.idgen = @ + 1], ret |-> IdBase(d.idgen)]

\* Db::generate_id: a database-wide counter that only grows.
generate_id(d) == [d |-> [d EXCEPT !.idgen = @ + 1], ret |-> d.idgen]

\* Db::drop_tree: refuses the default tree, removes any other, absent or not.
drop_tree(d, name) ==
  IF name = Reserved THEN [d |-> d, res |-> Err("Sled")]
  ELSE [d |-> [d EXCEPT !.trees = [n \in (DOMAIN @) \ {name} |-> @[n]]],
        res |-> Ok(name \in DOMAIN d.trees)]

\* Db::tree_names
tree_names(d) == DOMAIN d.trees

\* ------------------------------------------------------------ database.rs
\* insert_msg: open the tree, take an id, store the encoded value under the
\* big-endian id.
insert_msg(d, msg, fail) ==
  LET d1 == open_tree(d, msg.uuid)
      g == generate_id(d1)
      value == EncodeValue(msg)
  IN CASE fail = "generate_id" -> [d |-> d1, res |-> Err("Sled")]
       [] fail = "insert" -> [d |-> g.d, res |-> Err("Sled")]
       [] OTHER -> [d |-> [g.d EXCEPT !.trees[msg.uuid] =
                                   TreeInsert(@, to_be_bytes(g.ret, 8), value)],
                    res |-> Ok(g.ret)]

\* get_msg
get_msg(d, uuid, i) ==
  LET d1 == open_tree(d, uuid)
      v == TreeGet(d1.trees[uuid], to_be_bytes(i, 8))
  IN [d |-> d1,
      res |-> IF v = None THEN Ok(None)
              ELSE LET m == from_ivec(uuid, v[1])
                   IN IF m.ok THEN Ok(Some(m.val[1])) ELSE m]

\* get_all_uuid: the tree names without the reserved one.
get_all_uuid(d) == Ok(SetToSeq({n \in tree_names(d) : n # Reserved}))

\* drop
drop(d, uuid) ==
  LET r == drop_tree(d, uuid)
  IN [d |-> r.d, res |-> IF r.res.ok THEN Ok(<<>>) ELSE r.res]

\* The loop of get_last_msg: from the tail backward, at most `left` records;
\* the first record that does not decode ends the call with its error.
RECURSIVE CollectBack(_, _, _, _)
CollectBack(uuid, tree, left, out) ==
  IF left = 0 \/ tree = <<>> THEN Ok(out)
  ELSE LET m == from_ivec(uuid, tree[Len(tree)].value)
       IN IF m.ok
          THEN CollectBack(uuid, SubSeq(tree, 1, Len(tree) - 1), left - 1,
                           Append(out, m.val[1]))
          ELSE m

\* A buggy loop that skips a record that does not decode.
RECURSIVE CollectBackSkip(_, _, _, _)
CollectBackSkip(uuid, tree, left, out) ==
  IF left = 0 \/ tree = <<>> THEN Ok(out)
  ELSE LET m == from_ivec(uuid, tree[Len(tree)].value)
       IN CollectBackSkip(uuid, SubSeq(tree, 1, Len(tree) - 1), left - 1,
                          IF m.ok THEN Append(out, m.val[1]) ELSE out)

\* get_last_msg with the skipping loop.
get_last_msg_skip(d, uuid, nums) ==
  LET d1 == open_tree(d, uuid)
      tree == d1.trees[uuid]
      dr == IF tree = <<>> THEN drop(d1, uuid) ELSE [d |-> d1, res |-> Ok(<<>>)]
  IN IF dr.res.ok
     THEN [d |-> dr.d, res |-> CollectBackSkip(uuid, tree, nums, <<>>)]
     ELSE dr

\* get_last_msg: open the tree, drop it when empty, read back from the tail.
get_last_msg(d, uuid, nums) ==
  LET d1 == open_tree(d, uuid)
      tree == d1.trees[uuid]
      dr == IF tree = <<>> THEN drop(d1, uuid) ELSE [d |-> d1, res |-> Ok(<<>>)]
  IN IF dr.res.ok
     THEN [d |-> dr.d, res |-> CollectBack(uuid, tree, nums, <<>>)]
     ELSE dr

\* The loop of drop_all over the listed names.
RECURSIVE DropEach(_, _)
DropEach(d, names) ==
  IF names = <<>> THEN [d |-> d, res |-> Ok(<<>>)]
  ELSE LET r == drop_tree(d, names[1])
       IN IF r.res.ok THEN DropEach(r.d, Tail(names)) ELSE [d |-> r.d, res |-> r.res]

\* drop_all
drop_all(d) == DropEach(d, get_all_uuid(d).val[1])

\* Callback payloads as UTF-8 bytes: a (not JSON), {} (no uuid field) and
\* {"uuid":"a"}.
CallbackPayloads ==
  {<<97>>, <<123, 125>>, <<123, 34, 117, 117, 105, 100, 34, 58, 34, 97, 34, 125>>}

\* serde_json::from_str::<Value> followed by Value::get("uuid"), over the
\* payloads of the model: the empty object, an object whose only field is
\* uuid with a one-letter string, and text that is not JSON.
from_str(body) ==
  LET head == <<123, 34, 117, 117, 105, 100, 34, 58, 34>>
      letter == (97 :> "a") @@ (98 :> "b")
  IN IF body = <<123, 125>> THEN Ok([uuid |-> None])
     ELSE IF /\ Len(body) = Len(head) + 3
             /\ SubSeq(body, 1, Len(head)) = head
             /\ body[Len(head) + 1] \in DOMAIN letter
             /\ SubSeq(body, Len(head) + 2, Len(body)) = <<34, 125>>
          THEN Ok([uuid |-> Some(JsonString(letter[body[Len(head) + 1]]))])
     ELSE Err("SerdeJson")

\* A callback that lets the panic of its closure go on to its caller.
resume_unwind(outcome) == outcome

\* std::panic::catch_unwind with the result thrown away: a panic of the
\* closure ends there and the function returns.
catch_unwind(outcome) == "returned"

\* maa_store_callback: parse the payload (unwrap), leave when it has no uuid
\* field, else insert_msg under Value::to_string of that field (unwrap).
maa_store_callback(d, msg, detail_json, now, fail) ==
  LET v == from_str(detail_json)
      closure ==
        IF ~v.ok THEN [d |-> d, out |-> "panicked"]
        ELSE IF v.val[1].uuid = None THEN [d |-> d, out |-> "returned"]
        ELSE LET uuid == to_string(v.val[1].uuid[1]).val[1]
                 r == insert_msg(d, Msg(now, msg, uuid, detail_json), fail)
             IN [d |-> r.d, out |-> IF r.res.ok THEN "returned" ELSE "panicked"]
  IN [d |-> closure.d, out |-> catch_unwind(closure.out)]

\* ------------------------------------------------------- store operations
\* An event as the caller gives it (the key apart).
Event(time, type_, body) == [time |-> time, type_ |-> type_, body |-> body]

\* Sample events: the later ones carry the earlier timestamps; one has no body.
StoreMsgs ==
  {Event(2, 1, <<123, 125>>), Event(1, 2, <<97>>), Event(1, 0, <<>>)}

SResp(op, key, n, res) == [op |-> op, key |-> key, n |-> n, res |-> res]

InsertMsg(k, e) ==
  /\ db.idgen - IdBase(db.idgen) < MaxAppends
  /\ LET r == insert_msg(db, Msg(e.time, e.type_, k, e.body), "none")
     IN /\ db' = r.d
        /\ sresp' = SResp("insert_msg", k, 0, r.res)
        /\ appended' = IF r.res.ok THEN [appended EXCEPT ![k] = Append(@, e)]
                       ELSE appended
  /\ UNCHANGED <<mgrVars, codecVars, sessVars, lifeVars, thr>>

\* The records of partition k, none when the tree does not exist.
Records(d, k) == IF k \in DOMAIN d.trees THEN d.trees[k] ELSE <<>>

\* The engine delivers an event to maa_store_callback (in the model always
\* at the time 2 with the kind 1).
MaaStoreCallback(now, msg, detail_json, fail) ==
  /\ db.idgen - IdBase(db.idgen) < MaxAppends
  /\ LET r == maa_store_callback(db, msg, detail_json, now, fail)
     IN /\ db' = r.d
        /\ sresp' = SResp("maa_store_callback", "", 0,
                          IF r.out = "returned" THEN Ok(<<>>) ELSE Err("panic"))
        /\ appended' = [k \in Keys |->
                          IF Len(Records(r.d, k)) > Len(Records(db, k))
                          THEN Append(appended[k], Event(now, msg, detail_json))
                          ELSE appended[k]]
  /\ UNCHANGED <<mgrVars, codecVars, sessVars, lifeVars, thr>>

GetMsg(k, i) ==
  /\ UNCHANGED <<mgrVars, codecVars, sessVars, lifeVars, thr>>
  /\ LET r == get_msg(db, k, i)
       IN /\ db' = r.d
          /\ sresp' = SResp("get_msg", k, i, r.res)
          /\ UNCHANGED appended

GetAllUuid ==
  /\ sresp' = SResp("get_all_uuid", "", 0, get_all_uuid(db))
  /\ UNCHANGED <<db, appended>>
  /\ UNCHANGED <<mgrVars, codecVars, sessVars, lifeVars, thr>>

GetLastMsg(k, n) ==
  /\ UNCHANGED <<mgrVars, codecVars, sessVars, lifeVars, thr>>
  /\ LET r == get_last_msg(db, k, n)
       IN /\ db' = r.d
          /\ sresp' = SResp("get_last_msg", k, n, r.res)
          /\ UNCHANGED appended

Drop(k) ==
  /\ UNCHANGED <<mgrVars, codecVars, sessVars, lifeVars, thr>>
  /\ LET r == drop(db, k)
       IN /\ db' = r.d
          /\ sresp' = SResp("drop", k, 0, r.res)
          /\ appended' = IF r.res.ok THEN [appended EXCEPT ![k] = <<>>] ELSE appended

DropAll ==
  /\ UNCHANGED <<mgrVars, codecVars, sessVars, lifeVars, thr>>
  /\ LET r == drop_all(db)
       IN /\ db' = r.d
          /\ sresp' = SResp("drop_all", "", 0, r.res)
          /\ appended' = [k \in Keys |-> IF k \in DOMAIN r.d.trees THEN appended[k]
                                         ELSE <<>>]

StoreNextOver(KS, ES) ==
  \/ \E k \in KS, e \in ES : InsertMsg(k, e)
  \/ \E detail_json \in CallbackPayloads, fail \in IoFailures :
       MaaStoreCallback(2, 1, detail_json, fail)
  \/ \E k \in KS : GetMsg(k, IdBase(db.idgen))
  \/ GetAllUuid
  \/ \E k \in KS, n \in NumsVals : GetLastMsg(k, n)
  \/ \E k \in KS : Drop(k)
  \/ DropAll

StoreNext == StoreNextOver(Keys, StoreMsgs)

\* Sessions created and deleted (by one worker: these handlers finish under
\* the lock) while the partitions of the device keys are read and dropped;
\* the engine delivers events while it has a handle that is not destroyed.
MgrStoreNext ==
  \/ HandleCreate("w1")
  \/ \E i \in ReqIds : HandleDelete("w1", i)
  \/ \E detail_json \in CallbackPayloads :
       /\ \E e \in manager.instances : e.value.handle # 0
       /\ MaaStoreCallback(2, 1, detail_json, "none")
  \/ \E k \in Keys \ {Reserved} : GetLastMsg(k, 1)
  \/ \E k \in Keys \ {Reserved} : Drop(k)
  \/ DropAll

\* A database that holds only sled's default tree.
DbOpen(start) == [trees |-> (Reserved :> <<>>), idgen |-> start]

\* ------------------------------------- store calls, statement by statement
\* Threads that call into the store at the same time (request workers, the
\* engine's callback thread). MSG_DB is shared by all of them without a lock
\* of its own; each sled call is atomic.
Threads == {"t1", "t2"}

ThrIdle ==
  [op |-> "none", pc |-> "idle", key |-> "", e |-> Event(0, 0, <<>>), nums |-> 0,
   id |-> 0, stale |-> FALSE, res |-> Ok(<<>>)]

\* Calls of insert_msg that have not yet taken their id.
PendingIds ==
  Cardinality({t \in Threads : thr[t].op = "insert_msg"
                               /\ thr[t].pc \in {"open_tree", "generate_id"}})

\* A thread enters insert_msg(&Msg{uuid: k, ..e}) or get_last_msg(k, nums).
OpBegin(t, op, k, e, nums) ==
  /\ thr[t].pc = "idle"
  /\ op = "insert_msg" => db.idgen - IdBase(db.idgen) + PendingIds < MaxAppends
  /\ thr' = [thr EXCEPT ![t] = [ThrIdle EXCEPT !.op = op, !.pc = "open_tree",
                                               !.key = k, !.e = e, !.nums = nums]]
  /\ UNCHANGED <<db, appended, sresp>>
  /\ UNCHANGED <<mgrVars, codecVars, sessVars, lifeVars>>

\* MSG_DB.open_tree(uuid)?: the first statement of both functions.
OpenTreeStep(t) ==
  /\ thr[t].pc = "open_tree"
  /\ db' = open_tree(db, thr[t].key)
  /\ thr' = [thr EXCEPT ![t].pc = IF thr[t].op = "insert_msg" THEN "generate_id"
                                  ELSE "is_empty"]
  /\ UNCHANGED <<appended, sresp>>
  /\ UNCHANGED <<mgrVars, codecVars, sessVars, lifeVars>>

\* let id = MSG_DB.generate_id()?
GenerateIdStep(t) ==
  /\ thr[t].pc = "generate_id"
  /\ LET g == generate_id(db)
     IN /\ db' = g.d
        /\ thr' = [thr EXCEPT ![t].pc = "insert", ![t].id = g.ret]
  /\ UNCHANGED <<appended, sresp>>
  /\ UNCHANGED <<mgrVars, codecVars, sessVars, lifeVars>>

\* uuid_tree.insert(id.to_be_bytes(), value)?; Ok(id). A handle whose tree
\* was dropped meanwhile no longer writes into the database: the record is
\* not in the tree of that name, whatever sled answers.
TreeInsertStep(t) ==
  /\ thr[t].pc = "insert"
  /\ LET k == thr[t].key
         msg == Msg(thr[t].e.time, thr[t].e.type_, k, thr[t].e.body)
     IN \E ok \in {TRUE} \cup {~thr[t].stale} :
          /\ db' = IF thr[t].stale THEN db
                   ELSE [db EXCEPT !.trees[k] =
                           TreeInsert(@, to_be_bytes(thr[t].id, 8), EncodeValue(msg))]
          /\ thr' = [thr EXCEPT ![t].pc = "idle",
                                ![t].res = IF ok THEN Ok(thr[t].id) ELSE Err("Sled")]
          /\ appended' = IF ok THEN [appended EXCEPT ![k] = Append(@, thr[t].e)]
                         ELSE appended
  /\ UNCHANGED sresp
  /\ UNCHANGED <<mgrVars, codecVars, sessVars, lifeVars>>

\* if uuid_tree.is_empty()
IsEmptyStep(t) ==
  /\ thr[t].pc = "is_empty"
  /\ thr' = [thr EXCEPT ![t].pc = IF thr[t].stale \/ Records(db, thr[t].key) = <<>>
                                  THEN "drop" ELSE "iter"]
  /\ UNCHANGED <<db, appended, sresp>>
  /\ UNCHANGED <<mgrVars, codecVars, sessVars, lifeVars>>

\* drop(uuid)?: the tree of that name is removed with whatever it holds by
\* now, and every handle opened on it before goes stale.
DropTreeStep(t) ==
  /\ thr[t].pc = "drop"
  /\ LET r == drop(db, thr[t].key)
     IN /\ db' = r.d
        /\ thr' = [u \in Threads |->
                     IF u = t
                     THEN IF r.res.ok THEN [thr[t] EXCEPT !.pc = "iter", !.stale = TRUE]
                          ELSE [thr[t] EXCEPT !.pc = "idle", !.res = r.res]
                     ELSE IF /\ r.res.ok
                             /\ thr[u].key = thr[t].key
                             /\ thr[u].pc \notin {"idle", "open_tree"}
                          THEN [thr[u] EXCEPT !.stale = TRUE]
                          ELSE thr[u]]
  /\ UNCHANGED <<appended, sresp>>
  /\ UNCHANGED <<mgrVars, codecVars, sessVars, lifeVars>>

\* The loop over iter.next_back() and Ok(result).
IterStep(t) ==
  /\ thr[t].pc = "iter"
  /\ thr' = [thr EXCEPT ![t].pc = "idle",
                        ![t].res = CollectBack(thr[t].key,
                                               IF thr[t].stale THEN <<>>
                                               ELSE Records(db, thr[t].key),
                                               thr[t].nums, <<>>)]
  /\ UNCHANGED <<db, appended, sresp>>
  /\ UNCHANGED <<mgrVars, codecVars, sessVars, lifeVars>>

\* Concurrent appends only.
ConcInsertNext ==
  \/ \E t \in Threads, k \in Keys \ {Reserved}, e \in StoreMsgs :
       OpBegin(t, "insert_msg", k, e, 0)
  \/ \E t \in Threads : OpenTreeStep(t)
  \/ \E t \in Threads : GenerateIdStep(t)
  \/ \E t \in Threads : TreeInsertStep(t)

\* Appends and reads of one partition at the same time.
ConcNext ==
  \/ \E t \in Threads, e \in StoreMsgs : OpBegin(t, "insert_msg", "a", e, 0)
  \/ \E t \in Threads : OpBegin(t, "get_last_msg", "a", Event(0, 0, <<>>), 1)
  \/ \E t \in Threads : OpenTreeStep(t)
  \/ \E t \in Threads : GenerateIdStep(t)
  \/ \E t \in Threads : TreeInsertStep(t)
  \/ \E t \in Threads : IsEmptyStep(t)
  \/ \E t \in Threads : DropTreeStep(t)
  \/ \E t \in Threads : IterStep(t)

StoreInit ==
  /\ db \in {DbOpen(start) : start \in IdStarts}
  /\ appended = [k \in Keys |-> <<>>]
  /\ sresp = SResp("none", "", 0, Ok(<<>>))
  /\ thr = [t \in Threads |-> ThrIdle]

StoreIdle ==
  /\ db = DbOpen(0)
  /\ appended = [k \in Keys |-> <<>>]
  /\ sresp = SResp("none", "", 0, Ok(<<>>))
  /\ thr = [t \in Threads |-> ThrIdle]

\* ------------------------------------------- a database found on disk
\* sled::open opens whatever the directory holds. The values a partition may
\* hold there: 11, 12 and 13 bytes, and 13 bytes whose body is not UTF-8.
DiskValues ==
  LET full == EncodeValue(Msg(1, 1, "a", <<97>>))
  IN {SubSeq(full, 1, 11), SubSeq(full, 1, 12), full,
      SubSeq(full, 1, 12) \o <<255>>}

DiskTrees ==
  {<<[key |-> to_be_bytes(0, 8), value |-> v]>> : v \in DiskValues}
  \cup {<<[key |-> to_be_bytes(0, 8), value |-> v],
          [key |-> to_be_bytes(1, 8), value |-> u]>> :
          v \in DiskValues, u \in DiskValues}

DiskInit ==
  /\ db \in {[trees |-> (Reserved :> <<>>) @@ ("a" :> t), idgen |-> 255] :
               t \in DiskTrees}
  /\ appended = [k \in Keys |-> <<>>]
  /\ sresp = SResp("none", "", 0, Ok(<<>>))
  /\ thr = [t \in Threads |-> ThrIdle]

DiskNext == StoreNextOver({"a"}, {Event(2, 1, <<123, 125>>)})

\* ------------------------------------------------ variable-length accessors
\* Initial capacity and ceiling of each accessor's buffer.
ImageInit == 16588800

ImageMax == 82944000

UuidInit == 1024

UuidMax == 1048576

TasksInit == 1024

TasksMax == 1048576

\* Largest number of foreign calls one accessor run makes in the model.
MaxCalls == 12

\* Largest task id the engine hands out in the model (0 is its invalid id).
MaxTaskId == 2

\* Most sizes the identifier call reports within its buffer in one run of the
\* model (the loop of uuid() goes on after each of them).
MaxRepeats == 2

Accessors == {"screenshot", "uuid", "tasks"}

\* A buggy null test that lets every handle through.
HandleIsNullNever(s) == FALSE

\* self.handle.is_null()
HandleIsNull(s) == s.handle = 0

\* A buggy cache test that never finds the identifier.
UuidCachedNever(s) == FALSE

\* !self.uuid.is_none()
UuidCached(s) == s.uuid # None

\* The foreign function an accessor calls for its data.
ForeignOf(op) ==
  CASE op = "screenshot" -> "AsstGetImage"
    [] op = "uuid" -> "AsstGetUUID"
    [] op = "tasks" -> "AsstGetTasksList"

\* The foreign calls of one pass of the loop: the data call, and the sentinel
\* query is_valid_size makes.
PassCalls(op) ==
  IF op = "uuid" THEN <<ForeignOf(op)>> ELSE <<ForeignOf(op), "AsstGetNullSize">>

\* The sizes within the buffer the identifier call has reported in this run.
Repeats == Cardinality({i \in DOMAIN reported : ~(reported[i].size = nullSize)})

InitialSize(op) ==
  CASE op = "screenshot" -> ImageInit
    [] op = "uuid" -> UuidInit
    [] op = "tasks" -> TasksInit

Ceiling(op) ==
  CASE op = "screenshot" -> ImageMax
    [] op = "uuid" -> UuidMax
    [] op = "tasks" -> TasksMax

\* A buggy ceiling test that never stops the growth.
CeilingNever(op, buff_size) == FALSE

\* if buff_size > <ceiling> { return Err(Error::TooLargeAlloc) }
CeilingExceeded(op, buff_size) == buff_size > Ceiling(op)

\* A buggy growth by half, the factor the code's TODO asks for.
GrowByHalf(buff_size) == buff_size + buff_size \div 2

\* buff_size *= 2
Grow(buff_size) == buff_size * 2

\* A buggy size test against the literal (uint64)-1.
is_valid_size_literal(size) == size # -1

\* is_valid_size: the size is not what AsstGetNullSize reports now.
is_valid_size(size) == size # nullSize

\* Assistant::get_null_size, which uuid() compares with.
get_null_size == nullSize

\* Whether the accessor treats the reported size as "buffer too small".
IsSentinel(op, size) ==
  IF op = "uuid" THEN size = get_null_size ELSE ~is_valid_size(size)

\* A buggy pruning that keeps every entry.
RetainAll(tasks, ids) == tasks

\* self.tasks.retain(|k, _| task_ids.contains(k))
Retain(tasks, ids) == {t \in tasks : \E k \in DOMAIN ids : ids[k] = t.id}

AResult(status, len, tasks) ==
  [status |-> status, len |-> len, tasks |-> tasks, data |-> <<>>]

\* What the foreign call answers to a buffer of `cap`: the sentinel, or a size
\* within the buffer with the data it wrote (for the task list, the ids of the
\* engine's live tasks).
Answer(size, data) == [size |-> size, data |-> data]

DataAnswers(op, cap) ==
  CASE op = "screenshot" -> {Answer(n, <<>>) : n \in {0, 5, cap}}
    [] op = "uuid" -> {Answer(1, <<97>>)}
    [] op = "tasks" -> {Answer(Len(asst.tasks), asst.tasks)}

Answers(op, cap) == {Answer(nullSize, <<>>)} \cup DataAnswers(op, cap)

\* Entry of screenshot / uuid / tasks: the null-handle test, the cached uuid,
\* or the start of the negotiation loop.
Call(op) ==
  /\ acc.pc # "loop"
  /\ IF HandleIsNull(sess)
     THEN /\ acc' = [op |-> op, pc |-> "done", buff_size |-> 0]
          /\ aresult' = AResult("InvalidHandle", 0, {})
     ELSE IF op = "uuid" /\ UuidCached(sess)
     THEN /\ acc' = [op |-> op, pc |-> "done", buff_size |-> 0]
          /\ aresult' = [AResult("Ok", Len(sess.uuid[1]), {}) EXCEPT !.data = sess.uuid[1]]
     ELSE /\ acc' = [op |-> op, pc |-> "loop", buff_size |-> InitialSize(op)]
          /\ aresult' = AResult("Pending", 0, {})
  /\ offered' = <<>>
  /\ reported' = <<>>
  /\ fcalls' = <<>>
  /\ UNCHANGED <<sess, asst, nullSize>>
  /\ UNCHANGED <<mgrVars, codecVars, storeVars, lifeVars>>

\* The accessor returns.
Return(res) ==
  /\ acc' = [acc EXCEPT !.pc = "done"]
  /\ aresult' = res

\* One pass of the loop: the ceiling test, the foreign call answering `a`, and
\* what the accessor does with the reported size.
IterateWith(a) ==
  /\ acc.pc = "loop"
  /\ IF CeilingExceeded(acc.op, acc.buff_size)
     THEN /\ Return(AResult("TooLargeAlloc", 0, {}))
          /\ UNCHANGED <<sess, offered, reported, fcalls>>
     ELSE /\ Len(offered) < MaxCalls
          /\   /\ offered' = Append(offered, acc.buff_size)
               /\ fcalls' = fcalls \o PassCalls(acc.op)
               /\ reported' = Append(reported, a)
               /\ IF IsSentinel(acc.op, a.size)
                  THEN /\ acc' = [acc EXCEPT !.buff_size = Grow(@)]
                       /\ UNCHANGED <<sess, aresult>>
                  ELSE CASE acc.op = "screenshot" ->
                              \* set_len past the capacity is undefined: the call
                              \* returns that many bytes, or the process dies
                              /\ \E st \in (IF a.size > acc.buff_size
                                            THEN {"Ok", "Abort"} ELSE {"Ok"}) :
                                   Return(AResult(st, a.size, {}))
                              /\ UNCHANGED sess
                         [] acc.op = "tasks" ->
                              /\ \E st \in (IF a.size > acc.buff_size
                                            THEN {"Ok", "Abort"} ELSE {"Ok"}) :
                                   LET kept == Retain(sess.tasks, a.data)
                                   IN /\ sess' = [sess EXCEPT !.tasks = kept]
                                      /\ Return(AResult(st, Cardinality(kept), kept))
                         [] acc.op = "uuid" ->
                              IF a.size > acc.buff_size
                              THEN /\ Return(AResult("TooLargeAlloc", 0, {}))
                                   /\ UNCHANGED sess
                              ELSE \* the loop has no break: it goes round again
                                   /\ Repeats < MaxRepeats
                                   /\ sess' = [sess EXCEPT !.uuid = Some(a.data)]
                                   /\ UNCHANGED <<acc, aresult>>
  /\ UNCHANGED <<asst, nullSize>>
  /\ UNCHANGED <<mgrVars, codecVars, storeVars, lifeVars>>

\* A pass of the loop against an engine that keeps to the buffer it is given.
Iterate ==
  /\ acc.pc = "loop"
  /\ \E a \in Answers(acc.op, acc.buff_size) : IterateWith(a)

\* A pass of the loop against an engine whose data fits the buffer offered.
IterateFitting ==
  /\ acc.pc = "loop"
  /\ \E a \in DataAnswers(acc.op, acc.buff_size) : IterateWith(a)

\* A pass of the loop against an engine that reports more than the buffer holds.
IterateOversized ==
  /\ acc.pc = "loop"
  /\ ~CeilingExceeded(acc.op, acc.buff_size)
  /\ IterateWith(Answer(acc.buff_size + 1, <<>>))

\* AsstAppendTask: the engine appends the task under a new id, or fails with
\* its invalid id 0.
AppendTaskIds == {0} \cup (IF asst.next < MaxTaskId THEN {asst.next + 1} ELSE {})

\* The session leaves an operation that is no accessor loop.
Done(op, res) ==
  /\ acc' = [op |-> op, pc |-> "done", buff_size |-> 0]
  /\ aresult' = res
  /\ offered' = <<>>
  /\ reported' = <<>>

\* CString::new fails on a string with an interior NUL byte.
HasNul(str) == \E i \in DOMAIN str : str[i] = 0

\* Task types given to create_task, as bytes: "S", and "S\0" which no C
\* string can hold.
TaskTypes == {<<83>>, <<83, 0>>}

\* A buggy registration that forgets the task.
TasksInsertNothing(tasks, task) == tasks

\* self.tasks.insert(task_id, Task { .. }): the entry of that id is replaced.
TasksInsert(tasks, task) == {t \in tasks : t.id # task.id} \cup {task}

Task(id, task_type, params) == [id |-> id, task_type |-> task_type, params |-> params]

\* A buggy status test that takes every non-zero code for success.
is_success_nonzero(code) == IF code # 0 THEN "Ok" ELSE "Unknown"

\* is_success: Ok for the code 1, Error::Unknown for any other.
is_success(code) == IF code = 1 THEN "Ok" ELSE "Unknown"

\* The status codes (AsstBool) the engine may answer with.
SessStatuses == {0, 1, 2}

\* create_task: the null test, the C strings, the JSON of the parameters,
\* AsstAppendTask, and the registration of whatever id it returns. The
\* pointers handed over come from temporaries already dropped, so what the
\* engine reads, and with it the id it answers, is not determined.
CreateTask(task_type, params) ==
  /\ acc.pc # "loop"
  /\ IF HandleIsNull(sess)
     THEN /\ Done("create_task", AResult("InvalidHandle", 0, {}))
          /\ fcalls' = <<>>
          /\ UNCHANGED <<sess, asst>>
     ELSE IF HasNul(task_type)
     THEN /\ Done("create_task", AResult("CNull", 0, {}))
          /\ fcalls' = <<>>
          /\ UNCHANGED <<sess, asst>>
     ELSE IF ~to_string(params).ok
     THEN /\ Done("create_task", AResult("Serialize", 0, {}))
          /\ fcalls' = <<>>
          /\ UNCHANGED <<sess, asst>>
     ELSE \E task_id \in AppendTaskIds :
          /\ fcalls' = <<"AsstAppendTask">>
          /\ asst' = IF task_id = 0 THEN asst
                    ELSE [asst EXCEPT !.tasks = Append(@, task_id), !.next = task_id]
          /\ sess' = [sess EXCEPT !.tasks =
                        TasksInsert(@, Task(task_id, task_type, to_string(params).val[1]))]
          /\ Done("create_task", AResult("Ok", task_id, {}))
  /\ UNCHANGED nullSize
  /\ UNCHANGED <<mgrVars, codecVars, storeVars, lifeVars>>

\* AsstSetTaskParams: the engine may take the parameters for a task on its
\* list, and refuses them for any other id.
SetTaskParamsCodes(id) ==
  IF \E k \in DOMAIN asst.tasks : asst.tasks[k] = id THEN {0, 1} ELSE {0}

\* set_task_parameters: the null test, the JSON of the parameters, and
\* AsstSetTaskParams with its status; the registry is not consulted.
SetTaskParameters(id, params) ==
  /\ acc.pc # "loop"
  /\ IF HandleIsNull(sess)
     THEN /\ Done("set_task_parameters", AResult("InvalidHandle", id, {}))
          /\ fcalls' = <<>>
     ELSE IF ~to_string(params).ok
     THEN /\ Done("set_task_parameters", AResult("Serialize", id, {}))
          /\ fcalls' = <<>>
     ELSE \E code \in SetTaskParamsCodes(id) :
          /\ fcalls' = <<"AsstSetTaskParams">>
          /\ Done("set_task_parameters", AResult(is_success(code), id, {}))
  /\ UNCHANGED <<sess, asst, nullSize>>
  /\ UNCHANGED <<mgrVars, codecVars, storeVars, lifeVars>>

\* start / stop: the null test, one foreign call, is_success of its status.
StartStop(op) ==
  /\ acc.pc # "loop"
  /\ IF HandleIsNull(sess)
     THEN /\ Done(op, AResult("InvalidHandle", 0, {}))
          /\ fcalls' = <<>>
     ELSE \E code \in SessStatuses :
          /\ fcalls' = <<IF op = "start" THEN "AsstStart" ELSE "AsstStop">>
          /\ Done(op, AResult(is_success(code), code, {}))
  /\ UNCHANGED <<sess, asst, nullSize>>
  /\ UNCHANGED <<mgrVars, codecVars, storeVars, lifeVars>>

\* Socket addresses given to connect, and the strings given with them: a path
\* with and without an interior NUL, no configuration name or one with a NUL.
Addrs == {"10.0.0.1:5555", "10.0.0.2:5555"}

AdbPaths == {<<97>>, <<97, 0>>}

Configs == {None, Some(<<0>>)}

\* The C strings of connect / connect_async fail on an interior NUL.
ConnectStringsFail(adb_path, config) ==
  HasNul(adb_path) \/ (config # None /\ HasNul(config[1]))

\* connect: the null test, the C strings, AsstConnect, and the target set
\* after is_success let the status through.
Connect(adb_path, address, config) ==
  /\ acc.pc # "loop"
  /\ IF HandleIsNull(sess)
     THEN /\ Done("connect", AResult("InvalidHandle", 0, {}))
          /\ fcalls' = <<>>
          /\ UNCHANGED <<sess, asst>>
     ELSE IF ConnectStringsFail(adb_path, config)
     THEN /\ Done("connect", AResult("CNull", 0, {}))
          /\ fcalls' = <<>>
          /\ UNCHANGED <<sess, asst>>
     ELSE \E code \in SessStatuses :
          /\ fcalls' = <<"AsstConnect">>
          /\ asst' = IF code = 1 THEN [asst EXCEPT !.addr = Some(address)] ELSE asst
          /\ sess' = IF is_success(code) = "Ok"
                    THEN [sess EXCEPT !.target = Some(address)]
                    ELSE sess
          /\ Done("connect", AResult(is_success(code), code, {}))
  /\ UNCHANGED nullSize
  /\ UNCHANGED <<mgrVars, codecVars, storeVars, lifeVars>>

\* The call ids (AsstAsyncCallId) the engine answers an asynchronous request
\* with: 0 when it refuses the request, another id when it takes it.
AsyncCallIds == {0, 1}

\* connect_async: the null test, the C strings, AsstAsyncConnect, and the
\* target set whatever id came back. The engine, when it took the request,
\* may or may not get connected to the address.
ConnectAsync(adb_path, address, config, block) ==
  /\ acc.pc # "loop"
  /\ IF HandleIsNull(sess)
     THEN /\ Done("connect_async", AResult("InvalidHandle", 0, {}))
          /\ fcalls' = <<>>
          /\ UNCHANGED <<sess, asst>>
     ELSE IF ConnectStringsFail(adb_path, config)
     THEN /\ Done("connect_async", AResult("CNull", 0, {}))
          /\ fcalls' = <<>>
          /\ UNCHANGED <<sess, asst>>
     ELSE \E async_call_id \in AsyncCallIds :
          /\ fcalls' = <<"AsstAsyncConnect">>
          /\ \E connected \in (IF async_call_id = 0 THEN {FALSE} ELSE BOOLEAN) :
               asst' = IF connected THEN [asst EXCEPT !.addr = Some(address)] ELSE asst
          /\ sess' = [sess EXCEPT !.target = Some(address)]
          /\ Done("connect_async", AResult("Ok", async_call_id, {}))
  /\ UNCHANGED nullSize
  /\ UNCHANGED <<mgrVars, codecVars, storeVars, lifeVars>>

\* set_option: the null test, the C string of the value,
\* AsstSetInstanceOption, is_success of its status.
SetOption(key, value) ==
  /\ acc.pc # "loop"
  /\ IF HandleIsNull(sess)
     THEN /\ Done("set_option", AResult("InvalidHandle", 0, {}))
          /\ fcalls' = <<>>
     ELSE IF HasNul(value)
     THEN /\ Done("set_option", AResult("CNull", 0, {}))
          /\ fcalls' = <<>>
     ELSE \E code \in SessStatuses :
          /\ fcalls' = <<"AsstSetInstanceOption">>
          /\ Done("set_option", AResult(is_success(code), code, {}))
  /\ UNCHANGED <<sess, asst, nullSize>>
  /\ UNCHANGED <<mgrVars, codecVars, storeVars, lifeVars>>

\* click_async / take_screenshot_async: the null test, one foreign call, and
\* Ok with the call id it returned.
AsyncOps == {"click_async", "take_screenshot_async"}

AsyncRequest(op, block) ==
  /\ acc.pc # "loop"
  /\ IF HandleIsNull(sess)
     THEN /\ Done(op, AResult("InvalidHandle", 0, {}))
          /\ fcalls' = <<>>
     ELSE \E async_call_id \in AsyncCallIds :
          /\ fcalls' = <<IF op = "click_async" THEN "AsstAsyncClick"
                         ELSE "AsstAsyncScreencap">>
          /\ Done(op, AResult("Ok", async_call_id, {}))
  /\ UNCHANGED <<sess, asst, nullSize>>
  /\ UNCHANGED <<mgrVars, codecVars, storeVars, lifeVars>>

\* The engine finishes the task at the head of its list and takes it off.
EngineRemovesTask ==
  /\ asst.tasks # <<>>
  /\ asst' = [asst EXCEPT !.tasks = Tail(@)]
  /\ UNCHANGED <<sess, acc, offered, reported, aresult, fcalls, nullSize>>
  /\ UNCHANGED <<mgrVars, codecVars, storeVars, lifeVars>>

\* The sentinel the engine reports: (uint64)-1, written -1 here, or another value.
NullSizes == {-1, 0}

SessInit ==
  /\ sess \in {AssistantNew(h, 1) : h \in {0, 1}}
  /\ acc = [op |-> "none", pc |-> "idle", buff_size |-> 0]
  /\ offered = <<>>
  /\ reported = <<>>
  /\ aresult = AResult("None", 0, {})
  /\ asst = [tasks |-> <<>>, next |-> 0, addr |-> None]
  /\ fcalls = <<>>
  /\ nullSize \in NullSizes

SessIdle ==
  /\ sess = AssistantNew(0, 0)
  /\ acc = [op |-> "none", pc |-> "idle", buff_size |-> 0]
  /\ offered = <<>>
  /\ reported = <<>>
  /\ aresult = AResult("None", 0, {})
  /\ asst = [tasks |-> <<>>, next |-> 0, addr |-> None]
  /\ fcalls = <<>>
  /\ nullSize = -1

CreateParams == {JsonObject("{}"), JsonString("{}"), Unserializable}

SetParams == {JsonObject("{\"a\":1}"), Unserializable}

SessNext ==
  \/ \E op \in Accessors : Call(op)
  \/ Iterate
  \/ \E ty \in TaskTypes, p \in CreateParams : CreateTask(ty, p)
  \/ EngineRemovesTask

\* Every operation of the session, on an engine whose data fits the buffers.
SessOpsInit ==
  /\ SessInit
  /\ nullSize = -1

SessOpsNext ==
  \/ \E op \in Accessors : Call(op)
  \/ IterateFitting
  \/ \E ty \in TaskTypes, p \in CreateParams : CreateTask(ty, p)
  \/ \E id \in 0 .. MaxTaskId, p \in SetParams : SetTaskParameters(id, p)
  \/ \E op \in {"start", "stop"} : StartStop(op)
  \/ \E adb_path \in AdbPaths, address \in Addrs, config \in Configs :
       Connect(adb_path, address, config)
  \/ \E adb_path \in AdbPaths, address \in Addrs, config \in Configs :
       ConnectAsync(adb_path, address, config, TRUE)
  \/ \E value \in AdbPaths : SetOption(1, value)
  \/ \E op \in AsyncOps, block \in BOOLEAN : AsyncRequest(op, block)
  \/ EngineRemovesTask

SessOversizedNext ==
  \/ SessNext
  \/ IterateOversized

\* ------------------------------------------- construction and teardown
\* Assistant values built and dropped in the model; slot n gets the handle n
\* and the callback context n.
MaxSlots == 2

Slots == 1 .. MaxSlots

\* Callback invocations the engine makes on one handle in the model.
MaxCallbacks == 1

\* A buggy Drop that reclaims the callback context before AsstDestroy.
DropStepsFreeFirst == <<"free", "AsstDestroy">>

\* Drop for Assistant: AsstDestroy(self.handle), then Box::from_raw of the
\* callback pointer.
DropSteps == <<"AsstDestroy", "free">>

\* Message payloads the engine hands to the trampoline: "a", and a byte that
\* is not UTF-8.
CallbackData == {<<97>>, <<255>>}

\* A panic inside the extern "C" trampoline cannot unwind into the engine:
\* the process is aborted and nothing runs after it.
Aborted == \E h \in Slots : cbs[h].panicked

NoObject == [st |-> "none", handle |-> 0, callback_ptr |-> None, step |-> 1]

\* Assistant::new: the callback is boxed and its raw pointer given to
\* AsstCreateEx (AsstCreate without a callback); a null handle is
\* Err(AllocFailed), any other makes the Assistant.
New(s, with_callback, handle) ==
  /\ ~Aborted
  /\ objs[s].st = "none"
  /\ ctx' = IF with_callback THEN [ctx EXCEPT ![s] = "live"] ELSE ctx
  /\ IF handle = 0
     THEN /\ objs' = [objs EXCEPT ![s].st = "failed"]
          /\ UNCHANGED hnd
     ELSE /\ objs' = [objs EXCEPT ![s] =
                        [st |-> "live", handle |-> handle,
                         callback_ptr |-> IF with_callback THEN Some(s) ELSE None,
                         step |-> 1]]
          /\ hnd' = [hnd EXCEPT ![handle] = "live"]
  /\ UNCHANGED <<cbs, uaf>>
  /\ UNCHANGED <<mgrVars, codecVars, storeVars, sessVars>>

\* The engine calls the trampoline of a live handle created with a callback:
\* the context pointer is turned into the callback reference, then the
\* payload goes through CStr::to_str().expect(..), which panics on bytes
\* that are not UTF-8.
TrampolineEnter(h, data) ==
  /\ ~Aborted
  /\ hnd[h] = "live"
  /\ ctx[h] # "none"
  /\ cbs[h].running = 0
  /\ cbs[h].delivered < MaxCallbacks
  /\ cbs' = [cbs EXCEPT ![h].running = 1,
                        ![h].panicked = ~Utf8Valid(data)]
  /\ uaf' = (uaf \/ ctx[h] = "freed")
  /\ UNCHANGED <<objs, hnd, ctx>>
  /\ UNCHANGED <<mgrVars, codecVars, storeVars, sessVars>>

\* The trampoline calls the callback through that reference and returns.
TrampolineReturn(h) ==
  /\ ~Aborted
  /\ cbs[h].running = 1
  /\ cbs' = [cbs EXCEPT ![h].running = 0, ![h].delivered = @ + 1]
  /\ uaf' = (uaf \/ ctx[h] = "freed")
  /\ UNCHANGED <<objs, hnd, ctx>>
  /\ UNCHANGED <<mgrVars, codecVars, storeVars, sessVars>>

\* One statement of Drop. A null handle returns at once. AsstDestroy returns
\* when the engine has stopped the thread that makes its callbacks, so it
\* waits for a trampoline in progress.
DropStep(s) ==
  /\ ~Aborted
  /\ objs[s].st \in {"live", "dropping"}
  /\ IF objs[s].handle = 0
     THEN /\ objs' = [objs EXCEPT ![s].st = "dropped"]
          /\ UNCHANGED <<hnd, ctx>>
     ELSE /\ objs' = [objs EXCEPT ![s].step = @ + 1,
                                  ![s].st = IF objs[s].step = Len(DropSteps)
                                            THEN "dropped" ELSE "dropping"]
          /\ IF DropSteps[objs[s].step] = "AsstDestroy"
             THEN /\ cbs[objs[s].handle].running = 0
                  /\ hnd' = [hnd EXCEPT ![objs[s].handle] = "destroyed"]
                  /\ UNCHANGED ctx
             ELSE /\ ctx' = IF objs[s].callback_ptr # None
                            THEN [ctx EXCEPT ![objs[s].callback_ptr[1]] =
                                    IF @ = "live" THEN "freed" ELSE "freed twice"]
                            ELSE ctx
                  /\ UNCHANGED hnd
  /\ UNCHANGED <<cbs, uaf>>
  /\ UNCHANGED <<mgrVars, codecVars, storeVars, sessVars>>

LifeInit ==
  /\ objs = [s \in Slots |-> NoObject]
  /\ hnd = [s \in Slots |-> "none"]
  /\ ctx = [s \in Slots |-> "none"]
  /\ cbs = [s \in Slots |-> [running |-> 0, delivered |-> 0, panicked |-> FALSE]]
  /\ uaf = FALSE

LifeIdle == LifeInit

LifeNext ==
  \/ \E s \in Slots, with_callback \in BOOLEAN, created \in BOOLEAN :
       New(s, with_callback, IF created THEN s ELSE 0)
  \/ \E h \in Slots, data \in CallbackData : TrampolineEnter(h, data)
  \/ \E h \in Slots : TrampolineReturn(h)
  \/ \E s \in Slots : DropStep(s)

\* ------------------------------------------------------- specifications
vars == <<mgrVars, codecVars, storeVars, sessVars, lifeVars>>

InitMgr == MgrInit /\ CodecIdle /\ StoreIdle /\ SessIdle /\ LifeIdle

SpecMgr == InitMgr /\ [][MgrNext]_vars

\* The engine's thread and a foreign call that can return keep running.
SpecMgrFair ==
  /\ SpecMgr
  /\ WF_vars(\E c \in inflight : CallbackEnter(c))
  /\ WF_vars(\E c \in inflight : CallbackReturn(c))
  /\ WF_vars(\E w \in Workers, s \in Statuses : ForeignReturn(w, s))

InitCodec == CodecInit /\ MgrInit /\ StoreIdle /\ SessIdle /\ LifeIdle

SpecCodec == InitCodec /\ [][CodecNext]_vars

InitStore == StoreInit /\ MgrInit /\ CodecIdle /\ SessIdle /\ LifeIdle

SpecStore == InitStore /\ [][StoreNext]_vars

InitStoreDisk == DiskInit /\ MgrInit /\ CodecIdle /\ SessIdle /\ LifeIdle

SpecStoreDisk == InitStoreDisk /\ [][DiskNext]_vars

SpecMgrStore == InitMgr /\ [][MgrStoreNext]_vars

SpecStoreInserts == InitStore /\ [][ConcInsertNext]_vars

SpecStoreThreads == InitStore /\ [][ConcNext]_vars

InitSess == SessInit /\ MgrInit /\ CodecIdle /\ StoreIdle /\ LifeIdle

SpecSess == InitSess /\ [][SessNext]_vars

InitSessOps == SessOpsInit /\ MgrInit /\ CodecIdle /\ StoreIdle /\ LifeIdle

SpecSessOps == InitSessOps /\ [][SessOpsNext]_vars

InitLife == LifeInit /\ MgrInit /\ CodecIdle /\ StoreIdle /\ SessIdle

SpecLife == InitLife /\ [][LifeNext]_vars

SpecSessOversized == InitSess /\ [][SessOversizedNext]_vars

\* ------------------------------------------------------------- claims
ReturnedIds == {returned[k] : k \in DOMAIN returned}

LiveIds == ReturnedIds \ deleted

\* C1: every id create returns is strictly greater than every id returned
\* before it, the first id is 1, and no id is returned twice, also after a
\* delete of that id.
C1_IdsStrictlyIncreasing ==
  /\ (returned # <<>> => returned[1] = 1)
  /\ \A a, b \in DOMAIN returned : a < b => returned[a] < returned[b]

\* create -> 1, delete(1), create -> 2
C1_Witness ==
  /\ returned = <<1, 2>>
  /\ deleted = {1}
  /\ resp.op = "create" /\ resp.val = <<2>>

\* C2: get/get_mut find a session exactly for the ids created and not deleted
\* since, get_all_id lists exactly those ids once each, and no two entries of
\* the map share an id.
C2_LookupMatchesLive ==
  /\ \A i \in ReqIds : (get(manager, i) # None) <=> (i \in LiveIds)
  /\ \A i \in ReqIds : (get_mut(manager, i) # None) <=> (i \in LiveIds)
  /\ LET ids == get_all_id(manager)
     IN /\ {ids[k] : k \in DOMAIN ids} = LiveIds
        /\ Len(ids) = Cardinality(LiveIds)
  /\ \A e1, e2 \in manager.instances : e1.key = e2.key => e1 = e2

C2_Witness ==
  /\ resp.op = "instances"
  /\ Len(resp.val) = 2
  /\ deleted # {}

\* C3: the first delete of a live id removes that session and only it; a
\* delete of an id with no live session (a second delete included) answers
\* InstanceNotFound and leaves the map, the counter and the engine unchanged.
C3_DeleteIdempotent ==
  [][\A w \in Workers, i \in ReqIds :
       HandleDelete(w, i) =>
         /\ manager'.id = manager.id
         /\ \A j \in ReqIds \ {i} : get(manager', j) = get(manager, j)
         /\ get(manager', i) = None
         /\ IF get(manager, i) # None
            THEN resp'.status = "Ok"
            ELSE /\ resp' = Resp("delete", i, "InstanceNotFound", <<>>)
                 /\ manager' = manager
                 /\ engine' = engine]_vars

\* a second delete of the same id has answered
C3_Witness ==
  /\ resp = Resp("delete", 1, "InstanceNotFound", <<>>)
  /\ 1 \in deleted
  /\ 2 \in LiveIds

\* C4: a start/stop/click/screenshot request naming an id without a live
\* session answers InstanceNotFound, issues no foreign call and changes
\* neither the map nor any session nor the engine.
C4_AbsentSessionNoCall ==
  [][\A w \in Workers, op \in SessionOps, i \in ReqIds :
       (HandleSession(w, op, i) /\ get(manager, i) = None) =>
         /\ resp' = Resp(op, i, "InstanceNotFound", <<>>)
         /\ inflight' = inflight
         /\ mutex' = mutex
         /\ manager' = manager
         /\ engine' = engine]_vars

C4_Witness ==
  /\ resp.op \in SessionOps
  /\ resp.status = "InstanceNotFound"
  /\ resp.id \in deleted
  /\ LiveIds # {}

\* C5: decoding with Msg::from_ivec the value insert_msg builds gives back the
\* same timestamp, kind and body, for every event, the empty body included.
C5_RoundTrip == cdOut # None => cdOut[1] = Ok(cdIn)

\* The round trip of the events whose body is not empty.
RoundTripNonEmptyBody ==
  (cdOut # None /\ cdIn.body # <<>>) => cdOut[1] = Ok(cdIn)

\* The last min(n, Len(es)) events of es, the latest first, as Msg of key k.
RECURSIVE ReverseLast(_, _, _)
ReverseLast(k, es, n) ==
  IF n = 0 \/ es = <<>> THEN <<>>
  ELSE LET e == es[Len(es)]
       IN <<Msg(e.time, e.type_, k, e.body)>>
          \o ReverseLast(k, SubSeq(es, 1, Len(es) - 1), n - 1)

\* C6: after m >= 1 appends to a partition with no drop in between,
\* get_last_msg(key, n) is Ok with the min(n, m) latest events in reverse
\* append order, whatever their timestamps.
C6_ReadLastReverseOrder ==
  (sresp.op = "get_last_msg" /\ appended[sresp.key] # <<>>) =>
    sresp.res = Ok(ReverseLast(sresp.key, appended[sresp.key], sresp.n))

\* C7: get_last_msg on a key nothing was appended to (or whose partition was
\* dropped) is Ok with the empty list, for every n and every key.
C7_ReadLastMissingIsEmpty ==
  (sresp.op = "get_last_msg" /\ appended[sresp.key] = <<>>) =>
    sresp.res = Ok(<<>>)

\* The values get_last_msg(k, n) walks over, the latest first.
RECURSIVE TailValues(_, _)
TailValues(tree, n) ==
  IF n = 0 \/ tree = <<>> THEN <<>>
  ELSE <<tree[Len(tree)].value>> \o TailValues(SubSeq(tree, 1, Len(tree) - 1), n - 1)

\* C8: when a record get_last_msg decodes is shorter than the 12-byte header
\* the call fails with IVecNotLongEnough; a short record among the tail
\* records is never skipped with the others returned as a success.
C8_ShortRecordIsError ==
  sresp.op = "get_last_msg" =>
    LET k == sresp.key
        T == IF k \in DOMAIN db.trees THEN TailValues(db.trees[k], sresp.n)
             ELSE <<>>
    IN /\ (\E i \in DOMAIN T : Len(T[i]) < HeaderLen) => ~sresp.res.ok
       /\ \A i \in DOMAIN T :
            (/\ Len(T[i]) < HeaderLen
             /\ \A j \in 1 .. (i - 1) : from_ivec(k, T[j]).ok)
            => sresp.res = Err("IVecNotLongEnough")

\* a read that decoded the latest record and then met a short one
C8_Witness ==
  /\ sresp.op = "get_last_msg"
  /\ sresp.res = Err("IVecNotLongEnough")
  /\ sresp.key \in DOMAIN db.trees
  /\ LET tree == db.trees[sresp.key]
     IN /\ Len(tree) >= 2
        /\ from_ivec(sresp.key, tree[Len(tree)].value).ok
        /\ Len(tree[Len(tree) - 1].value) < HeaderLen

\* The run of screenshot() or tasks() ended on a size that is not the sentinel
\* and fits the buffer, after sentinels only.
NegotiationSucceeded ==
  /\ acc.op \in {"screenshot", "tasks"}
  /\ acc.pc = "done"
  /\ reported # <<>>
  /\ LET last == reported[Len(reported)]
     IN /\ ~IsSentinel(acc.op, last.size)
        /\ last.size <= offered[Len(offered)]
  /\ \A i \in 1 .. (Len(reported) - 1) : IsSentinel(acc.op, reported[i].size)

\* k + 1 foreign calls, the i-th with the initial capacity doubled i - 1 times.
DoubledEachRetry ==
  /\ Len(offered) = Len(reported)
  /\ \A i \in DOMAIN offered : offered[i] = InitialSize(acc.op) * 2 ^ (i - 1)

\* C9: k sentinels and then a valid size s make screenshot() and tasks() issue
\* exactly k + 1 foreign calls, the buffer doubled at each retry, and return
\* Ok with a result of length exactly s (for tasks(), the registry cut down to
\* the s reported ids).
C9_NegotiationDoubles ==
  NegotiationSucceeded =>
    LET last == reported[Len(reported)]
    IN /\ DoubledEachRetry
       /\ aresult.status = "Ok"
       /\ aresult.len = last.size
       /\ acc.op = "tasks" =>
            /\ aresult.tasks = sess.tasks
            /\ {t.id : t \in sess.tasks} = {last.data[i] : i \in DOMAIN last.data}

\* tasks() after two sentinels, returning the one task left of two registered
C9_Witness ==
  /\ NegotiationSucceeded
  /\ acc.op = "tasks"
  /\ Len(offered) = 3
  /\ reported[3].size = 1
  /\ aresult.len = 1
  /\ asst.next = 2

\* The number of buffers from `size` on, doubling, that do not exceed `max`.
RECURSIVE Doublings(_, _)
Doublings(size, max) == IF size > max THEN 0 ELSE 1 + Doublings(size * 2, max)

AllSentinel == \A i \in DOMAIN reported : IsSentinel(acc.op, reported[i].size)

\* C10: no buffer beyond the ceiling of its kind is ever offered; while every
\* answer is the sentinel the calls stay within the doublings that fit under
\* the ceiling, after the last of them the next pass returns, and the run
\* ends with TooLargeAlloc.
C10_CeilingBoundsNegotiation ==
  acc.op \in Accessors =>
    LET most == Doublings(InitialSize(acc.op), Ceiling(acc.op))
    IN /\ \A i \in DOMAIN offered : offered[i] <= Ceiling(acc.op)
       /\ AllSentinel => Len(offered) <= most
       /\ (AllSentinel /\ acc.pc = "loop" /\ Len(offered) = most)
            => CeilingExceeded(acc.op, acc.buff_size)
       /\ (AllSentinel /\ acc.pc = "done" /\ reported # <<>>)
            => aresult.status = "TooLargeAlloc"

\* tasks() gave up after the eleven buffers from 1024 to 1024 * 1024
C10_Witness ==
  /\ acc.op = "tasks"
  /\ acc.pc = "done"
  /\ aresult.status = "TooLargeAlloc"
  /\ AllSentinel
  /\ Len(offered) = 11
  /\ offered[11] = TasksMax

\* C11: in the first uuid() of a session with a live handle, the first size
\* the engine reports that is no sentinel and fits the buffer ends the run:
\* the identifier is cached, the call returns Ok and no further call is made.
C11_FirstUuidReturns ==
  \A i \in DOMAIN reported :
    (/\ acc.op = "uuid"
     /\ ~IsSentinel("uuid", reported[i].size)
     /\ reported[i].size <= offered[i])
    => /\ acc.pc = "done"
       /\ aresult.status = "Ok"
       /\ sess.uuid = Some(reported[i].data)
       /\ Len(reported) = i

C13_UnknownTaskRejected ==
  (/\ acc.op = "set_task_parameters"
   /\ sess.handle # 0
   /\ aresult.len > asst.next)
  => /\ aresult.status = "UnknownTask"
     /\ fcalls = <<>>

\* C14: a create_task that returns Ok(t) leaves the registry with exactly one
\* entry for t, holding the type given and the JSON text of the parameters
\* given; a create_task that returns an error leaves the registry as it was.
C14_CreateTaskRegisters ==
  [][\A ty \in TaskTypes, p \in CreateParams :
       CreateTask(ty, p) =>
         IF aresult'.status = "Ok"
         THEN {t \in sess'.tasks : t.id = aresult'.len}
                = {[id |-> aresult'.len, task_type |-> ty, params |-> to_string(p).val[1]]}
         ELSE sess'.tasks = sess.tasks]_vars

\* task 1 registered with the quoted JSON of a string parameter
C14_Witness ==
  /\ acc.op = "create_task"
  /\ aresult.status = "Ok"
  /\ aresult.len = 1
  /\ [id |-> 1, task_type |-> <<83>>, params |-> "\"{}\""] \in sess.tasks

\* C15: after set_task_parameters(t, p) returned Ok, the registry entry of t
\* carries the JSON text of p.
C15_RegistryHoldsLastSet ==
  [][\A id \in 0 .. MaxTaskId, p \in SetParams :
       (SetTaskParameters(id, p) /\ aresult'.status = "Ok") =>
         \E t \in sess'.tasks : t.id = id /\ t.params = to_string(p).val[1]]_vars

\* C16: after a tasks() that returned Ok, the ids of the registry, and of the
\* mapping returned, are exactly the ids the engine reported in that call.
C16_RegistryIsReportedSet ==
  (acc.op = "tasks" /\ acc.pc = "done" /\ aresult.status = "Ok") =>
    LET live == reported[Len(reported)].data
        ids == {live[k] : k \in DOMAIN live}
    IN /\ {t.id : t \in sess.tasks} = ids
       /\ {t.id : t \in aresult.tasks} = ids

\* tasks() pruned task 1, which the engine had finished, and kept task 2
C16_Witness ==
  /\ acc.op = "tasks"
  /\ acc.pc = "done"
  /\ aresult.status = "Ok"
  /\ asst.next = 2
  /\ {t.id : t \in sess.tasks} = {2}

\* C17: target() is the address of the latest connect the engine accepted
\* and got connected by; a refused or failed connect leaves it as it was.
C17_TargetIsLastSuccessfulConnect == sess.target = asst.addr

\* C18: on a session whose handle is null every operation returns
\* InvalidHandle, calls no foreign function and leaves the cached
\* identifier, the target and the registry as they were.
C18_NullHandleRejected ==
  [][sess.handle = 0 =>
       /\ acc'.pc = "done"
       /\ aresult'.status = "InvalidHandle"
       /\ fcalls' = <<>>
       /\ sess' = sess]_vars

C18_Witness ==
  /\ sess.handle = 0
  /\ acc.op = "connect_async"
  /\ aresult.status = "InvalidHandle"
  /\ fcalls = <<>>

\* C19: start() and stop() on a live handle make exactly one foreign call,
\* return Ok exactly when its status is 1 and an error for every other
\* status, and leave the session as it was.
C19_StartStopForwardStatus ==
  [][\A op \in {"start", "stop"} :
       (StartStop(op) /\ sess.handle # 0) =>
         /\ fcalls' = <<IF op = "start" THEN "AsstStart" ELSE "AsstStop">>
         /\ aresult'.status = (IF aresult'.len = 1 THEN "Ok" ELSE "Unknown")
         /\ sess' = sess]_vars

\* stop() answered with the status 2
C19_Witness ==
  /\ acc.op = "stop"
  /\ aresult.len = 2
  /\ aresult.status = "Unknown"
  /\ fcalls = <<"AsstStop">>

\* C20: a callback context is reclaimed only after the handle it was given
\* to has been destroyed, and no trampoline ever uses a context that was
\* reclaimed: none is in progress on a handle whose context is freed.
C20_DestroyBeforeReclaim ==
  /\ ~uaf
  /\ \A s \in Slots :
       ctx[s] = "freed" => (hnd[s] = "destroyed" /\ cbs[s].running = 0)

\* a session that had a callback delivered was dropped, its context reclaimed
C20_Witness ==
  \E s \in Slots :
    /\ objs[s].st = "dropped"
    /\ ctx[s] = "freed"
    /\ hnd[s] = "destroyed"
    /\ cbs[s].delivered >= 1

\* C21: every callback context allocated by Assistant::new(Some(callback)) is
\* reclaimed exactly once: it is never reclaimed twice, and once the value
\* that owned it is gone (new() returned AllocFailed, or the Assistant was
\* dropped) it has been reclaimed.
C21_ContextReclaimedOnce ==
  \A s \in Slots :
     /\ ctx[s] # "freed twice"
     /\ objs[s].st \in {"failed", "dropped"} => ctx[s] \in {"none", "freed"}

\* C22: a callback invocation whose payload is not valid UTF-8 does not panic
\* or abort the process; the trampoline returns normally to the engine.
C22_InvalidPayloadNoPanic == ~Aborted

\* C23: maa_store_callback returns normally for every payload, and for text
\* that is not JSON, JSON without a uuid field, or a payload whose insert
\* fails, the records of every partition are what they were.
C23_CallbackDropsQuietly ==
  [][\A p \in CallbackPayloads, f \in IoFailures :
       MaaStoreCallback(2, 1, p, f) =>
         /\ sresp'.res.ok
         /\ (~from_str(p).ok \/ from_str(p).val[1].uuid = None \/ f # "none") =>
              \A k \in DOMAIN db'.trees : Records(db', k) = Records(db, k)]_vars

\* A callback has returned after its insert failed past open_tree: the
\* partition exists and holds nothing.
C23_Witness ==
  /\ sresp.op = "maa_store_callback"
  /\ sresp.res.ok
  /\ DOMAIN db.trees = {Reserved, "\"a\""}
  /\ db.trees["\"a\""] = <<>>

\* C24: for a payload that is a JSON object whose uuid field is the string u,
\* maa_store_callback appends one event with the callback's kind and the
\* payload as body to the partition whose key is exactly u, so that
\* get_last_msg(u, 1) returns that event.
C24_CallbackRoutesByUuid ==
  [][\A p \in CallbackPayloads :
       ( /\ MaaStoreCallback(2, 1, p, "none")
         /\ from_str(p).ok
         /\ from_str(p).val[1].uuid # None ) =>
          LET u == from_str(p).val[1].uuid[1].text
              r == get_last_msg(db', u, 1).res
          IN /\ Len(Records(db', u)) = Len(Records(db, u)) + 1
             /\ r.ok
             /\ Len(r.val[1]) = 1
             /\ r.val[1][1].type_ = 1
             /\ r.val[1][1].body = p]_vars

\* C25: the manager mutex is held only for the map operation itself: while a
\* foreign call of a session is in progress the mutex is free, so another
\* request can acquire it.
C25_MutexFreeDuringForeignCall == inflight # {} => mutex = "free"

\* C26: the callback path never acquires the manager mutex (it runs while a
\* worker holds it and leaves it alone); so a worker that holds the mutex
\* during a foreign call that waits for a callback eventually releases it.
C26_CallbackNeverBlocksOnManager ==
  /\ [][\A c \in inflight :
          (CallbackEnter(c) \/ CallbackReturn(c)) => mutex' = mutex]_vars
  /\ \A w \in Workers : (mutex = w) ~> (mutex = "free")

\* A callback is running while the worker that made the foreign call holds
\* the mutex.
C26_Witness ==
  \E c \in inflight : c.cb = "running" /\ mutex = c.worker

C28_DropIdempotent ==
  [][\A k \in Keys :
       Drop(k) =>
         /\ sresp'.res.ok
         /\ \A n \in NumsVals : get_last_msg(db', k, n).res = Ok(<<>>)
         /\ \A k2 \in (DOMAIN db.trees \cup DOMAIN db'.trees) \ {k} :
              Records(db', k2) = Records(db, k2)]_vars

\* C29: after drop_all() returns Ok, get_all_uuid() returns the empty list
\* and get_last_msg(key, n) returns the empty list for every key and n.
C29_DropAllEmptiesStore ==
  [][(DropAll /\ sresp'.res.ok) =>
       /\ get_all_uuid(db') = Ok(<<>>)
       /\ \A k \in Keys, n \in NumsVals : get_last_msg(db', k, n).res = Ok(<<>>)]_vars

\* C30: get_all_uuid() returns exactly the keys for which an event was
\* appended since the key's last drop: reads add no key, and the reserved
\* name is never listed.
C30_ListedKeysHaveEvents ==
  LET listed == get_all_uuid(db).val[1]
  IN {listed[i] : i \in DOMAIN listed} =
       {k \in Keys \ {Reserved} : appended[k] # <<>>}

AppendedValues(k) ==
  [i \in DOMAIN appended[k] |->
     EncodeValue(Msg(appended[k][i].time, appended[k][i].type_, k, appended[k][i].body))]

\* C32: under any interleaving of insert_msg calls every stored record is the
\* whole encoding of one appended event and every appended event is stored
\* exactly once: the values of a partition and the encodings of the events
\* appended to it are the same multiset, under distinct keys.
C32_ConcurrentAppendsAtomic ==
  \A k \in Keys :
    LET recs == Records(db, k)
        vals == AppendedValues(k)
    IN /\ Len(recs) = Len(vals)
       /\ \A i, j \in DOMAIN recs : i # j => recs[i].key # recs[j].key
       /\ \A v \in {recs[i].value : i \in DOMAIN recs} \cup {vals[i] : i \in DOMAIN vals} :
            Cardinality({i \in DOMAIN recs : recs[i].value = v}) =
              Cardinality({i \in DOMAIN vals : vals[i] = v})

\* Two appends to one partition overlapped: the one that took the higher id
\* returned first.
C32_Witness ==
  \E k \in Keys :
    /\ Len(Records(db, k)) = 2
    /\ Records(db, k)[1].value = AppendedValues(k)[2]
    /\ Records(db, k)[1].value # Records(db, k)[2].value

\* C33: events are append-only and immutable: an insert_msg that returns Ok
\* adds exactly one record to its partition, and a stored record (key and
\* value) is removed or altered by no store operation other than drop and
\* drop_all.
C33_AppendOnly ==
  [][/\ \A t \in Threads :
          (TreeInsertStep(t) /\ thr'[t].res.ok) =>
             Len(Records(db', thr[t].key)) = Len(Records(db, thr[t].key)) + 1
     /\ (\E k \in DOMAIN db.trees :
           \E i \in DOMAIN db.trees[k] :
             \A j \in DOMAIN Records(db', k) : Records(db', k)[j] # db.trees[k][i])
          => ((\E k \in Keys : Drop(k)) \/ DropAll)]_vars

\* C34: a get_last_msg running at the same time as an insert_msg to the same
\* key never loses the appended event: once the calls have returned, every
\* event whose insert_msg returned Ok is stored in its partition (so a later
\* read can return it).
C34_ReadNeverLosesAppend ==
  (\A t \in Threads : thr[t].pc = "idle") =>
     \A k \in Keys :
       \A i \in DOMAIN appended[k] :
         \E j \in DOMAIN Records(db, k) : Records(db, k)[j].value = AppendedValues(k)[i]

\* C35: under any interleaving of the request handlers at most one foreign
\* call on a given session's handle is in progress at a time.
C35_OneForeignCallPerHandle ==
  \A c1, c2 \in inflight : c1.handle = c2.handle => c1 = c2

\* A foreign call, with its callback running, is in progress on the handle of
\* a registered session while a second session is registered.
C35_Witness ==
  \E c \in inflight :
    /\ \E e \in manager.instances : e.value.handle = c.handle
    /\ Cardinality(manager.instances) >= 2
    /\ c.cb = "running"

\* C36: every engine handle is released exactly once, when its session is
\* removed from the manager and dropped, and not before; no foreign call is in
\* progress on a released handle; no two registered sessions hold the same
\* (non-null) handle.
C36_HandleReleasedExactlyOnce ==
  LET live == {e.value.handle : e \in manager.instances} \ {0}
      releases(h) == {k \in DOMAIN engine.destroyed : engine.destroyed[k] = h}
  IN /\ \A h \in 1 .. engine.created :
          Cardinality(releases(h)) = IF h \in live THEN 0 ELSE 1
     /\ \A c \in inflight : releases(c.handle) = {}
     /\ \A e1, e2 \in manager.instances :
          (e1.value.handle = e2.value.handle /\ e1.value.handle # 0) => e1 = e2

\* One session has been deleted and its handle released, while a foreign call
\* is in progress on the handle of another session.
C36_Witness ==
  /\ Len(engine.destroyed) >= 1
  /\ \E c \in inflight :
       \E e \in manager.instances : e.value.handle = c.handle /\ c.handle # 0

\* C37: in screenshot(), uuid() and tasks() a size the engine reports that is
\* not the sentinel and is larger than the buffer offered is never accepted
\* as success, and the length of a successful result never exceeds the
\* capacity of the buffer offered.
C37_ResultFitsBuffer ==
  (acc.pc = "done" /\ acc.op \in Accessors /\ reported # <<>>) =>
     LET last == reported[Len(reported)]
         cap == offered[Len(offered)]
     IN /\ (~IsSentinel(acc.op, last.size) /\ last.size > cap) =>
             aresult.status \notin {"Ok", "Abort"}
        /\ aresult.status = "Ok" => aresult.len <= cap

\* C38: in every variable-length accessor a reported size is treated as
\* "buffer too small" (the capacity is doubled and the call repeated) exactly
\* when it equals the value AsstGetNullSize reports at run time, whatever that
\* value is.
C38_SentinelIsRuntimeValue ==
  [][(Len(reported') = Len(reported) + 1) =>
        LET a == reported'[Len(reported')]
        IN (a.size = nullSize) <=>
             (acc'.pc = "loop" /\ acc'.buff_size = Grow(acc.buff_size))]_vars

\* The engine's sentinel is not (uint64)-1, and tasks() has taken a report
\* of it for "buffer too small" and offered a second buffer.
C38_Witness ==
  /\ nullSize # -1
  /\ Len(offered) >= 2
  /\ reported[1].size = nullSize
  /\ acc.op = "tasks"

\* C39: the sentinel is fetched once: an accessor call, with all its
\* retries, invokes AsstGetNullSize at most once.
C39_SentinelFetchedOnce ==
  Cardinality({i \in DOMAIN fcalls : fcalls[i] = "AsstGetNullSize"}) <= 1

\* C40: when screenshot(), uuid() or tasks() returns an error (TooLargeAlloc
\* or InvalidHandle) the cached state of the session is what it was before
\* the call. uuid() gets past its cache test only with the cache unset, so
\* after an error from it the cache must still be unset; and no step of an
\* accessor other than the one that returns Ok changes the task registry or
\* the target.
C40_ErrorLeavesCacheUntouched ==
  /\ []((/\ acc.pc = "done"
         /\ acc.op = "uuid"
         /\ aresult.status \in {"TooLargeAlloc", "InvalidHandle"}) => sess.uuid = None)
  /\ [][((acc.pc = "loop" \/ \E op \in Accessors : Call(op))
           /\ ~(acc'.pc = "done" /\ aresult'.status = "Ok")) =>
          (sess'.tasks = sess.tasks /\ sess'.target = sess.target)]_vars

====
